---------------------------- MODULE Spec2Model ----------------------------
(* State-machine model of the PDF_RAG front end: the chat session          *)
(* (components/chat.tsx), the file registry hook (hooks/useFiles.ts), the   *)
(* toast hook (unnamed/part_000), the file list and the upload component    *)
(* (unnamed/part_001, lines 1-99 and 101-288), the page that wires them     *)
(* (unnamed/part_003) and the HTTP client (lib/api.ts).                     *)
(* Text is a sequence of tokens: a character of typed input is one token,   *)
(* a fixed phrase of the program or of the server is one token.             *)
EXTENDS Integers, Sequences, FiniteSets, TLC

VARIABLES
  mounted,        \* useFiles.ts:38-40 the mount effect has run
  messages,       \* chat.tsx:18
  inputValue,     \* chat.tsx:19
  isLoading,      \* chat.tsx:20
  askReqs,        \* in-flight ApiClient.askQuestion calls (chat.tsx:55)
  files,          \* useFiles.ts:8
  loading,        \* useFiles.ts:9
  error,          \* useFiles.ts:10
  listReqs,       \* in-flight ApiClient.listFiles calls (useFiles.ts:16)
  serverFiles,    \* the documents the remote service holds
  toasts,         \* part_000:12
  timers,         \* the pending setTimeout callbacks of part_000:21-23, oldest first
  selectedFiles,  \* part_001:118
  globalLoading,  \* part_003:16
  upload,         \* the running uploadFiles call: its closure and locals
  uploadLog,      \* what the current/last uploadFiles call has done, in order
  deletingFiles,  \* part_001:18
  delReqs,        \* in-flight ApiClient.deleteFile calls (useFiles.ts:28)
  serverLog,      \* the names the remote service has deleted / stored on request so far
  now,            \* the time, in seconds
  event           \* the handler or continuation that ran last

vars == <<mounted, messages, inputValue, isLoading, askReqs, files, loading,
          error, listReqs, serverFiles, toasts, timers, selectedFiles,
          globalLoading, upload, uploadLog, deletingFiles, delReqs, serverLog,
          now, event>>

chatVars == <<messages, inputValue, isLoading, askReqs>>
registryVars == <<files, loading, error, listReqs>>
toastVars == <<toasts, timers>>
uploadVars == <<selectedFiles, globalLoading, upload, uploadLog>>
deleteVars == <<deletingFiles, delReqs>>

-----------------------------------------------------------------------------
(* Bounds *)

MaxLen == 2        \* longest typed input, in characters
MaxMsgs == 4       \* longest transcript explored
MaxBatch == 2      \* most candidate files in one selection
MaxLoads == 2      \* most list requests in flight
MaxToasts == 1     \* a select or an upload starts while at most this many toasts await their timer
MaxTime == 7       \* the last second explored by the timed specification

Chars == {" ", "a"}
FileNames == {"A", "B"}
ToastIds == 1..(MaxToasts + MaxBatch + 3)

-----------------------------------------------------------------------------
(* Text *)

RECURSIVE SeqsUpTo(_, _)
SeqsUpTo(S, n) ==
  IF n = 0 THEN {<<>>}
  ELSE LET shorter == SeqsUpTo(S, n - 1)
       IN shorter \cup {Append(s, x) : s \in {t \in shorter : Len(t) = n - 1}, x \in S}

IsWhite(c) == c = " "

RECURSIVE TrimStart(_)
TrimStart(s) ==
  IF s = <<>> THEN <<>>
  ELSE IF IsWhite(Head(s)) THEN TrimStart(Tail(s)) ELSE s

RECURSIVE TrimEnd(_)
TrimEnd(s) ==
  IF s = <<>> THEN <<>>
  ELSE IF IsWhite(s[Len(s)]) THEN TrimEnd(SubSeq(s, 1, Len(s) - 1)) ELSE s

\* String.prototype.trim
Trim(s) == TrimEnd(TrimStart(s))

Undefined == <<"undefined">>

\* JavaScript truthiness of an optional string
Truthy(s) == s # <<>> /\ s # Undefined

IsPrefix(s, t) == Len(s) <= Len(t) /\ SubSeq(t, 1, Len(s)) = s

RemoveAt(s, i) == SubSeq(s, 1, i - 1) \o SubSeq(s, i + 1, Len(s))

-----------------------------------------------------------------------------
(* lib/api.ts: the HTTP client *)

\* What the network hands back for one request: fetch resolves or rejects,
\* and a resolved response has a status (ok = 2xx) and a JSON body.
Reply(fetch, ok, data) == [fetch |-> fetch, ok |-> ok, data |-> data]

Threw(msg, data) == [threw |-> TRUE, message |-> msg, data |-> data]
Returned(data) == [threw |-> FALSE, message |-> <<>>, data |-> data]

\* ApiClient.request: throws when fetch rejects, throws Error(data.error ||
\* "An error occurred") when the status is not ok, returns the body otherwise.
Request(reply) ==
  IF reply.fetch = "rejected" THEN Threw(<<"Failed to fetch">>, reply.data)
  ELSE IF ~reply.ok
       THEN Threw(IF Truthy(reply.data.error) THEN reply.data.error
                  ELSE <<"An error occurred">>, reply.data)
       ELSE Returned(reply.data)

\* error instanceof Error ? error.message : fallback; every throw of
\* ApiClient.request is an Error
ErrorMessage(r, fallback) == r.message

-----------------------------------------------------------------------------
(* components/chat.tsx: the chat session *)

\* the handler or continuation that ran last and what it was given: the
\* submit and upload handlers and their continuations are told apart, every
\* other step is recorded as "other"
Ev(op, arg) == [op |-> op, arg |-> arg]

None == <<>>
Some(x) == <<x>>

Citation(source, page, content) == [source |-> source, page |-> page, content |-> content]

AskBody(err, answer, sources) == [error |-> err, answer |-> answer, sources |-> sources]

AskReplies ==
  { Reply("resolved", TRUE,
          AskBody(Undefined, <<"It covers X.">>,
                  Some(<<Citation("doc.pdf", 2, "X is..."), Citation("doc.pdf", 1, "X was...")>>))),
    Reply("resolved", TRUE, AskBody(Undefined, <<"It covers X.">>, None)),
    Reply("resolved", FALSE, AskBody(<<"No documents">>, Undefined, None)),
    Reply("rejected", FALSE, AskBody(Undefined, Undefined, None)) }

Inputs == SeqsUpTo(Chars, MaxLen)

\* useFiles.ts:48 hasFiles: files.length > 0, handed to Chat (part_003:57)
hasFiles_Always == TRUE
hasFiles == Len(files) > 0

\* chat.tsx:177: the input takes keystrokes only when it is not disabled
InputEnabled_WhileLoading == hasFiles
InputEnabled == hasFiles /\ ~isLoading

\* chat.tsx:32-41; the timestamp is the logical instant of creation
addMessage_Prepend(prev, content, sender, sources) ==
  <<[content |-> content, sender |-> sender, sources |-> sources,
     timestamp |-> Len(prev) + 1]>> \o prev
addMessage_NoSources(prev, content, sender, sources) ==
  Append(prev, [content |-> content, sender |-> sender, sources |-> None,
                timestamp |-> Len(prev) + 1])
addMessage_OnlyWithFiles(prev, content, sender, sources) ==
  IF hasFiles
  THEN Append(prev, [content |-> content, sender |-> sender, sources |-> sources,
                     timestamp |-> Len(prev) + 1])
  ELSE prev
addMessage(prev, content, sender, sources) ==
  Append(prev, [content |-> content, sender |-> sender, sources |-> sources,
                timestamp |-> Len(prev) + 1])

\* part_000:14-24 showToast: the new queue and the new pending timers
PushToast(q, id, message, type) == Append(q, [id |-> id, message |-> message, type |-> type])
ToastLifetime == 5   \* part_000:23: 5000 ms
AddTimer(tm, id) == Append(tm, [id |-> id, due |-> now + ToastLifetime])

\* chat.tsx:59 the toast of the catch block
AskCatchToast_Silent(q, id) == q
AskCatchToast(q, id) == PushToast(q, id, <<"Failed to get response">>, "error")

\* chat.tsx:174 onChange
TypeInput(v) ==
  /\ mounted
  /\ InputEnabled
  /\ v # inputValue
  /\ inputValue' = v
  /\ event' = Ev("other", <<>>)
  /\ UNCHANGED <<deleteVars, serverLog, now, mounted, messages, isLoading, askReqs, registryVars, serverFiles,
                 toastVars, uploadVars>>

\* the session as handleSubmit finds it
SubmitPre ==
  <<IF isLoading THEN "awaiting" ELSE "idle",
    IF hasFiles THEN "files" ELSE "nofiles",
    IF Truthy(Trim(inputValue)) THEN "question" ELSE "blank">>

\* chat.tsx:46-47 the early return of handleSubmit
SubmitIgnored_NoFileCheck(question) == ~Truthy(question)
SubmitIgnored(question) == ~Truthy(question) \/ ~hasFiles

\* chat.tsx:51 setInputValue("")
SubmittedInput_Kept(v) == v
SubmittedInput(v) == <<>>

\* chat.tsx:43-55 handleSubmit up to its await
handleSubmit ==
  LET question == Trim(inputValue) IN
  /\ mounted
  /\ event' = Ev("handleSubmit", SubmitPre)
  /\ IF SubmitIgnored(question)
     THEN UNCHANGED <<messages, inputValue, isLoading, askReqs>>
     ELSE /\ Len(messages) + Len(askReqs) + 2 <= MaxMsgs
          /\ messages' = addMessage(messages, question, "user", None)
          /\ inputValue' = SubmittedInput(inputValue)
          /\ isLoading' = TRUE
          /\ askReqs' = Append(askReqs, [question |-> question])
  /\ UNCHANGED <<deleteVars, serverLog, now, mounted, registryVars, serverFiles, toastVars, uploadVars>>

\* chat.tsx:55-62 handleSubmit after its await: the request i settles
AskSettle(i, reply, id) ==
  LET r == Request(reply) IN
  /\ i \in DOMAIN askReqs
  /\ askReqs' = RemoveAt(askReqs, i)
  /\ IF ~r.threw
     THEN /\ messages' = addMessage(messages, r.data.answer, "ai", r.data.sources)
          /\ UNCHANGED toastVars
          /\ event' = Ev("askSettle", reply)
     ELSE /\ messages' = addMessage(messages,
                           <<"Sorry, I encountered an error: ">> \o ErrorMessage(r, <<"Unknown error">>),
                           "ai", None)
          /\ toasts' = AskCatchToast(toasts, id)
          /\ timers' = AddTimer(timers, id)
          /\ event' = Ev("askSettle", reply)
  /\ isLoading' = FALSE
  /\ UNCHANGED <<deleteVars, serverLog, now, mounted, inputValue, registryVars, serverFiles, uploadVars>>

-----------------------------------------------------------------------------
(* unnamed/part_000: the toast queue *)

NoTimers == <<>>

\* part_000:15 the id drawn for a new toast: here the least id that no
\* pending timer carries
Draw(tm) ==
  LET free == {id \in ToastIds : \A k \in DOMAIN tm : tm[k].id # id}
  IN {id \in free : \A other \in free : id <= other}

PendingTimers == Len(timers)

WithoutId_Oldest(q, id) == IF q = <<>> THEN q ELSE Tail(q)
WithoutId_Inverted(q, id) == SelectSeq(q, LAMBDA t : t.id = id)
WithoutId(q, id) == SelectSeq(q, LAMBDA t : t.id # id)

\* part_000:21-23 the timer callback of one showToast; the timers all
\* have the same delay, so the oldest fires first
TimerFire(id) ==
  /\ timers # <<>>
  /\ id = Head(timers).id
  /\ timers' = Tail(timers)
  /\ toasts' = WithoutId(toasts, id)
  /\ event' = Ev("other", <<>>)
  /\ UNCHANGED <<deleteVars, serverLog, now, mounted, chatVars, registryVars, serverFiles, uploadVars>>

\* part_000:21-23 the timer callback runs when its 5000 ms are over
Expire(id) ==
  /\ timers # <<>>
  /\ Head(timers).due <= now
  /\ TimerFire(id)

\* a second goes by, once the timer callbacks that are due have run
Tick ==
  /\ now < MaxTime
  /\ \A k \in DOMAIN timers : timers[k].due > now
  /\ now' = now + 1
  /\ UNCHANGED <<mounted, chatVars, registryVars, serverFiles, toastVars, uploadVars, deleteVars,
                 serverLog, event>>

\* part_000:26-28
removeToast(id) ==
  /\ mounted
  /\ toasts' = WithoutId(toasts, id)
  /\ event' = Ev("other", <<>>)
  /\ UNCHANGED <<deleteVars, serverLog, now, mounted, chatVars, registryVars, serverFiles, timers, uploadVars>>

-----------------------------------------------------------------------------
(* hooks/useFiles.ts: the file registry, and the remote document store *)

Null == <<"null">>

FileInfo(n) == [name |-> n, size |-> 1024]

ListBody(err, fs) == [error |-> err, files |-> fs]

\* the replies GET /list-files can produce while the store holds `held`
ListReplies(held) ==
  { Reply("resolved", TRUE, ListBody(Undefined, [i \in DOMAIN held |-> FileInfo(held[i])])),
    Reply("resolved", FALSE, ListBody(Undefined, <<>>)),
    Reply("rejected", FALSE, ListBody(Undefined, <<>>)) }

\* a list request in flight: the reply once the service has answered, the
\* deleteFile call that awaits it (useFiles.ts:29) if there is one, and the
\* names the service had deleted and had stored on request when it was
\* issued
ListRequest(then) ==
  [reply |-> None, then |-> then, gone |-> serverLog.deleted, had |-> serverLog.stored]

\* useFiles.ts:13-16 loadFiles up to its await, as a change of the registry
LoadStart_Deduplicated(then) ==
  /\ loading' = TRUE
  /\ error' = Null
  /\ listReqs' = IF listReqs = <<>> THEN Append(listReqs, ListRequest(then)) ELSE listReqs
  /\ UNCHANGED files
LoadStartFor(then) ==
  /\ loading' = TRUE
  /\ error' = Null
  /\ listReqs' = Append(listReqs, ListRequest(then))
  /\ UNCHANGED files

LoadStart == LoadStartFor(None)

\* room for one more list request, one being kept for a running upload
LoadRoom == Len(listReqs) + Len(delReqs) + (IF upload.pc = "idle" THEN 0 ELSE 1) < MaxLoads

\* useFiles.ts:38-40 the mount effect
Mount ==
  /\ ~mounted
  /\ mounted' = TRUE
  /\ LoadStart
  /\ event' = Ev("other", <<>>)
  /\ UNCHANGED <<deleteVars, serverLog, now, chatVars, serverFiles, toastVars, uploadVars>>

\* part_001:46-48 the refresh button, disabled while loading
Refresh ==
  /\ mounted
  /\ ~loading
  /\ LoadRoom
  /\ LoadStart
  /\ event' = Ev("other", <<>>)
  /\ UNCHANGED <<deleteVars, serverLog, now, mounted, chatVars, serverFiles, toastVars, uploadVars>>

\* the remote service answers the list request i from what it holds now
ListServe(i, reply) ==
  /\ i \in DOMAIN listReqs
  /\ listReqs[i].reply = None
  /\ reply \in ListReplies(serverFiles)
  /\ listReqs' = [listReqs EXCEPT ![i].reply = Some(reply)]
  /\ event' = Ev("other", <<>>)
  /\ UNCHANGED <<deleteVars, serverLog, now, mounted, chatVars, files, loading, error, serverFiles, toastVars, uploadVars>>

\* useFiles.ts:17 setFiles(response.files)
Loaded_FirstOnly(cur, response) == IF cur = <<>> THEN response.files ELSE cur
Loaded_Merged(cur, response) ==
  cur \o SelectSeq(response.files, LAMBDA f : \A k \in DOMAIN cur : cur[k] # f)
Loaded(cur, response) == response.files

\* useFiles.ts:18-19 the catch block of loadFiles does not call setFiles
KeptOnError_Cleared(cur) == <<>>
KeptOnError(cur) == cur

\* part_001:27 the toast of handleDelete once deleteFile has returned
DeleteDoneToast_Error(q, id) == PushToast(q, id, <<"Failed to delete file">>, "error")
DeleteDoneToast(q, id) == PushToast(q, id, <<"File deleted successfully">>, "success")

\* useFiles.ts:16-22 loadFiles after its await; when deleteFile awaits this
\* call (useFiles.ts:29-30) it returns true and handleDelete goes on
\* (part_001:27 and 30-35)
ListSettle(i, id) ==
  /\ i \in DOMAIN listReqs
  /\ listReqs[i].reply # None
  /\ LET r == Request(listReqs[i].reply[1])
         then == listReqs[i].then
     IN
       /\ IF ~r.threw
          THEN files' = Loaded(files, r.data) /\ UNCHANGED error
          ELSE error' = ErrorMessage(r, <<"Failed to load files">>) /\ files' = KeptOnError(files)
       /\ IF then = None
          THEN UNCHANGED <<toastVars, deleteVars>>
          ELSE /\ toasts' = DeleteDoneToast(toasts, id)
               /\ timers' = AddTimer(timers, id)
               /\ deletingFiles' = deletingFiles \ {then[1]}
               /\ UNCHANGED delReqs
       /\ event' = Ev("other", <<>>)
  /\ loading' = FALSE
  /\ listReqs' = RemoveAt(listReqs, i)
  /\ UNCHANGED <<serverLog, now, mounted, chatVars, serverFiles, uploadVars>>

DeleteBody(err, message) == [error |-> err, message |-> message]

Names(fs) == {fs[k].name : k \in DOMAIN fs}

\* the replies DELETE /delete/{name} can produce while the store holds `held`
DeleteReplies(held, n) ==
  (IF \E k \in DOMAIN held : held[k] = n
   THEN {Reply("resolved", TRUE, DeleteBody(Undefined, <<"File deleted">>))} ELSE {})
  \cup { Reply("resolved", FALSE, DeleteBody(<<"File not found">>, Undefined)),
         Reply("rejected", FALSE, DeleteBody(Undefined, Undefined)) }

\* part_001:20-26 handleDelete up to its await, from the Delete button of a
\* listed file (disabled while that file is being deleted), and
\* useFiles.ts:27-28 deleteFile up to its await
handleDelete(name, confirmed) ==
  /\ mounted
  /\ name \in Names(files)
  /\ name \notin deletingFiles
  /\ LoadRoom
  /\ PendingTimers <= MaxToasts
  /\ IF ~confirmed
     THEN UNCHANGED deleteVars
     ELSE /\ deletingFiles' = deletingFiles \cup {name}
          /\ delReqs' = Append(delReqs, [name |-> name, reply |-> None])
  /\ event' = Ev("other", <<>>)
  /\ UNCHANGED <<serverLog, now, mounted, chatVars, registryVars, serverFiles, toastVars, uploadVars>>

\* the remote service handles the delete request k in flight
DeleteServe(k, reply) ==
  /\ k \in DOMAIN delReqs
  /\ delReqs[k].reply = None
  /\ reply \in DeleteReplies(serverFiles, delReqs[k].name)
  /\ delReqs' = [delReqs EXCEPT ![k].reply = Some(reply)]
  /\ LET n == delReqs[k].name
         done == reply.fetch = "resolved" /\ reply.ok
     IN /\ serverFiles' = IF done THEN SelectSeq(serverFiles, LAMBDA x : x # n) ELSE serverFiles
        /\ serverLog' = IF done THEN [serverLog EXCEPT !.deleted = @ \cup {n}] ELSE serverLog
  /\ event' = Ev("other", <<>>)
  /\ UNCHANGED <<deletingFiles, now, mounted, chatVars, registryVars, toastVars, uploadVars>>

\* useFiles.ts:29 loadFiles() is called once the remote delete has succeeded
DeleteRefreshDue_Always(r) == TRUE
DeleteRefreshDue(r) == ~r.threw

\* useFiles.ts:28-33 deleteFile after its first await; when the remote
\* delete failed it throws and the catch block of handleDelete runs
\* (part_001:28-35)
DeleteSettle(k, id) ==
  /\ k \in DOMAIN delReqs
  /\ delReqs[k].reply # None
  /\ LET r == Request(delReqs[k].reply[1])
         name == delReqs[k].name
     IN
       IF DeleteRefreshDue(r)
       THEN /\ LoadStartFor(Some(name))
            /\ UNCHANGED <<toastVars, deletingFiles>>
       ELSE /\ toasts' = PushToast(toasts, id, ErrorMessage(r, <<"Failed to delete file">>), "error")
            /\ timers' = AddTimer(timers, id)
            /\ deletingFiles' = deletingFiles \ {name}
            /\ UNCHANGED registryVars
  /\ delReqs' = RemoveAt(delReqs, k)
  /\ event' = Ev("other", <<>>)
  /\ UNCHANGED <<serverLog, now, mounted, chatVars, serverFiles, uploadVars>>

\* the service deletes a document on its own when its retention time is up
ServerExpire(n) ==
  /\ \E i \in DOMAIN serverFiles : serverFiles[i] = n
  /\ serverFiles' = SelectSeq(serverFiles, LAMBDA x : x # n)
  /\ event' = Ev("other", <<>>)
  /\ UNCHANGED <<deleteVars, serverLog, now, mounted, chatVars, registryVars, toastVars, uploadVars>>

-----------------------------------------------------------------------------
(* unnamed/part_001: selection and batch upload *)

PdfType == "application/pdf"
\* the files the user can pick: one PDF per document name and one text file
Files == {[name |-> n, type |-> PdfType] : n \in FileNames}
           \cup {[name |-> "notes", type |-> "text/plain"]}

\* the FileLists a file dialog or a drop can hand over: distinct files
FileLists == {fs \in SeqsUpTo(Files, MaxBatch) : \A i, j \in DOMAIN fs : i # j => fs[i] # fs[j]}

UploadBody(err, message, minutes) == [error |-> err, message |-> message, auto_delete_in |-> minutes]

\* the replies POST /upload can produce for file f
UploadReplies(f) ==
  { Reply("resolved", TRUE, UploadBody(Undefined, <<"Uploaded ", f.name>>, "30")),
    Reply("resolved", FALSE, UploadBody(<<"unsupported encoding">>, Undefined, "undefined")),
    Reply("rejected", FALSE, UploadBody(Undefined, Undefined, "undefined")) }

LogEntry(what, name, type, message) == [what |-> what, name |-> name, type |-> type, message |-> message]
LogToast(type, message) == LogEntry("toast", "", type, message)

\* part_001:126 the media-type filter
IsPdf_AnyType(f) == TRUE
IsPdf(f) == f.type = PdfType
PdfFiles(fs) == SelectSeq(fs, IsPdf)

\* part_001:122-135 handleFileSelect on a non-null FileList
handleFileSelect(fs, id) ==
  /\ mounted
  /\ PendingTimers <= MaxToasts
  /\ LET pdfFiles == PdfFiles(fs) IN
       /\ IF Len(pdfFiles) # Len(fs)
          THEN /\ toasts' = PushToast(toasts, id, <<"Only PDF files are allowed">>, "warning")
               /\ timers' = AddTimer(timers, id)
          ELSE UNCHANGED toastVars
       /\ selectedFiles' = pdfFiles
  /\ event' = Ev("other", <<>>)
  /\ UNCHANGED <<deleteVars, serverLog, now, mounted, chatVars, registryVars, serverFiles, globalLoading, upload, uploadLog>>

\* part_001:156-158 removeFile, on a listed entry
removeFile(index) ==
  /\ mounted
  /\ index \in DOMAIN selectedFiles
  /\ selectedFiles' = RemoveAt(selectedFiles, index)
  /\ event' = Ev("other", <<>>)
  /\ UNCHANGED <<deleteVars, serverLog, now, mounted, chatVars, registryVars, serverFiles, toastVars, globalLoading,
                 upload, uploadLog>>

\* what the network made of an upload request, whatever the client makes of it
Outcome(reply) == IF reply.fetch = "resolved" /\ reply.ok THEN "ok" ELSE "failed"

\* no uploadFiles call is running
NoUpload == [pc |-> "idle", batch |-> <<>>, i |-> 0, successCount |-> 0, errorCount |-> 0,
             reqs |-> <<>>]

\* the toasts a step has appended to the queue q, as log entries
NewToasts(q, qNext) ==
  [k \in 1..(Len(qNext) - Len(q)) |-> LogToast(qNext[Len(q) + k].type, qNext[Len(q) + k].message)]

\* part_001:161 the empty-batch test
BatchRejected_Never(batch) == FALSE
BatchRejected(batch) == Len(batch) = 0

\* part_001:170-172 the requests issued when the loop reaches file i:
\* the loop awaits each upload before it goes on
IssueRequests_AllAtOnce(batch, i) ==
  IF i = 1 THEN [k \in DOMAIN batch |-> [file |-> batch[k], reply |-> None]] ELSE <<>>
IssueRequests(batch, i) ==
  IF i \in DOMAIN batch THEN <<[file |-> batch[i], reply |-> None]>> ELSE <<>>

RequestLog(reqs) == [k \in DOMAIN reqs |-> LogEntry("request", reqs[k].file.name, "", <<>>)]

\* part_001:186 onUploadComplete() is called whatever the counts are
RefreshDue_OnSuccess(successCount) == successCount > 0
RefreshDue(successCount) == TRUE

\* part_001:188 the test for the summary toast
SummaryDue_Always(successCount) == TRUE
SummaryDue(successCount) == successCount > 0

\* part_001:189
SummaryMessage(successCount) == <<"Successfully uploaded ", ToString(successCount), " file(s)">>

\* part_001:184 setSelectedFiles([])
ClearedBatch_OnlyUploaded(sel, batch) ==
  SelectSeq(sel, LAMBDA f : \A k \in DOMAIN batch : batch[k] # f)
ClearedBatch(sel, batch) == <<>>

\* part_001:170 the loop goes on to the next file whatever file i did
MoreFiles_StopOnError(u, r) == u.i < Len(u.batch) /\ ~r.threw
MoreFiles(u, r) == u.i < Len(u.batch)

\* part_001:174 and 177-180 the toast for one file
FileToast_SuccessOnly(file, r) ==
  [type |-> "success",
   message |-> r.data.message \o <<" (Auto-delete in ", r.data.auto_delete_in, " minutes)">>]
FileToast_Unnamed(file, r) ==
  IF ~r.threw
  THEN [type |-> "success",
        message |-> r.data.message \o <<" (Auto-delete in ", r.data.auto_delete_in, " minutes)">>]
  ELSE [type |-> "error",
        message |-> <<"Failed to upload ">> \o ErrorMessage(r, <<"Unknown error">>)]
FileToast(file, r) ==
  IF ~r.threw
  THEN [type |-> "success",
        message |-> r.data.message \o <<" (Auto-delete in ", r.data.auto_delete_in, " minutes)">>]
  ELSE [type |-> "error",
        message |-> <<"Failed to upload ", file.name, ": ">> \o ErrorMessage(r, <<"Unknown error">>)]

\* part_001:160-172 uploadFiles up to its first await; the model
\* follows one uploadFiles call at a time
uploadFiles(id) ==
  /\ mounted
  /\ upload.pc = "idle"
  /\ PendingTimers <= MaxToasts
  /\ IF BatchRejected(selectedFiles)
     THEN /\ toasts' = PushToast(toasts, id, <<"Please select at least one file">>, "error")
          /\ timers' = AddTimer(timers, id)
          /\ uploadLog' = NewToasts(toasts, toasts')
          /\ event' = Ev("uploadFiles", "rejected")
          /\ UNCHANGED <<globalLoading, upload, selectedFiles, registryVars>>
     ELSE /\ Len(listReqs) + Len(delReqs) < MaxLoads
          /\ LET reqs == IssueRequests(selectedFiles, 1) IN
               IF selectedFiles # <<>>
               THEN /\ globalLoading' = TRUE
                    /\ upload' = [pc |-> "awaiting", batch |-> selectedFiles, i |-> 1,
                                  successCount |-> 0, errorCount |-> 0, reqs |-> reqs]
                    /\ uploadLog' = RequestLog(reqs)
                    /\ UNCHANGED <<selectedFiles, registryVars>>
               ELSE \* no file to loop over: lines 184-190 follow at once
                    /\ globalLoading' = FALSE
                    /\ upload' = NoUpload
                    /\ selectedFiles' = <<>>
                    /\ LoadStart
                    /\ uploadLog' = <<LogEntry("clear", "", "", <<>>),
                                      LogEntry("refresh", "", "", <<>>)>>
          /\ event' = Ev("uploadFiles", "started")
          /\ UNCHANGED toastVars
  /\ UNCHANGED <<deleteVars, serverLog, now, mounted, chatVars, serverFiles>>

\* the remote service handles the upload request j in flight: it stores the
\* document when it answers with success
UploadServe(j, reply) ==
  /\ j \in DOMAIN upload.reqs
  /\ upload.reqs[j].reply = None
  /\ reply \in UploadReplies(upload.reqs[j].file)
  /\ upload' = [upload EXCEPT !.reqs[j].reply = Some(reply)]
  /\ LET n == upload.reqs[j].file.name IN
       /\ serverFiles' = IF Outcome(reply) = "ok" /\ \A k \in DOMAIN serverFiles : serverFiles[k] # n
                         THEN Append(serverFiles, n) ELSE serverFiles
       /\ serverLog' = IF Outcome(reply) = "ok"
                         THEN [serverLog EXCEPT !.stored = @ \cup {n}] ELSE serverLog
  /\ event' = Ev("other", <<>>)
  /\ UNCHANGED <<deleteVars, now, mounted, chatVars, registryVars, toastVars, selectedFiles,
                 globalLoading, uploadLog>>

\* part_001:172-190 uploadFiles after an await: the request for file i
\* has settled; the loop issues the next request or the call finishes
UploadSettle(id1, id2) ==
  /\ upload.pc = "awaiting"
  /\ upload.reqs # <<>>
  /\ Head(upload.reqs).reply # None
  /\ LET file == upload.batch[upload.i]
         reply == Head(upload.reqs).reply[1]
         r == Request(reply)
         t == FileToast(file, r)
         successCount == upload.successCount + (IF r.threw THEN 0 ELSE 1)
         errorCount == upload.errorCount + (IF r.threw THEN 1 ELSE 0)
         settled == LogEntry("settled", file.name, Outcome(reply), <<>>)
         q1 == PushToast(toasts, id1, t.message, t.type)
         tm1 == AddTimer(timers, id1)
         log1 == uploadLog \o <<settled>> \o NewToasts(toasts, q1)
         issued == IssueRequests(upload.batch, upload.i + 1)
     IN
       IF MoreFiles(upload, r)
       THEN /\ upload' = [upload EXCEPT !.i = @ + 1,
                                        !.reqs = Tail(@) \o issued,
                                        !.successCount = successCount,
                                        !.errorCount = errorCount]
            /\ toasts' = q1
            /\ timers' = tm1
            /\ uploadLog' = log1 \o RequestLog(issued)
            /\ event' = Ev("uploadSettle", "next")
            /\ UNCHANGED <<selectedFiles, globalLoading, registryVars>>
       ELSE /\ selectedFiles' = ClearedBatch(selectedFiles, upload.batch)
            /\ globalLoading' = FALSE
            /\ IF RefreshDue(successCount) THEN LoadStart ELSE UNCHANGED registryVars
            /\ toasts' = IF SummaryDue(successCount)
                         THEN PushToast(q1, id2, SummaryMessage(successCount), "success")
                         ELSE q1
            /\ timers' = IF SummaryDue(successCount) THEN AddTimer(tm1, id2) ELSE tm1
            /\ uploadLog' = log1 \o <<LogEntry("clear", "", "", <<>>)>>
                                 \o (IF RefreshDue(successCount)
                                     THEN <<LogEntry("refresh", "", "", <<>>)>> ELSE <<>>)
                                 \o NewToasts(q1, toasts')
            /\ upload' = [upload EXCEPT !.pc = "idle", !.reqs = <<>>,
                                        !.successCount = successCount,
                                        !.errorCount = errorCount]
            /\ event' = Ev("uploadSettle", "finished")
  /\ UNCHANGED <<deleteVars, serverLog, now, mounted, chatVars, serverFiles>>

-----------------------------------------------------------------------------
(* Specifications *)


\* distinct-name listings the remote service can hold
Listings(S) == {s \in SeqsUpTo(S, Cardinality(S)) : \A i, j \in DOMAIN s : i # j => s[i] # s[j]}

Init ==
  /\ mounted = FALSE
  /\ messages = <<>>
  /\ inputValue = <<>>
  /\ isLoading = FALSE
  /\ askReqs = <<>>
  /\ files = <<>>
  /\ loading = FALSE
  /\ error = Null
  /\ listReqs = <<>>
  /\ serverFiles \in Listings(FileNames)
  /\ toasts = <<>>
  /\ timers = NoTimers
  /\ selectedFiles = <<>>
  /\ globalLoading = FALSE
  /\ upload = NoUpload
  /\ uploadLog = <<>>
  /\ deletingFiles = {}
  /\ delReqs = <<>>
  /\ serverLog = [deleted |-> {}, stored |-> {}]
  /\ now = 0
  /\ event = Ev("init", <<>>)

RegistryNext ==
  \/ Mount
  \/ Refresh
  \/ \E i \in 1..MaxLoads, reply \in UNION {ListReplies(h) : h \in Listings(FileNames)} : ListServe(i, reply)
  \/ \E i \in 1..MaxLoads, id \in Draw(timers) : ListSettle(i, id)
  \/ \E n \in FileNames : ServerExpire(n)

ToastNext ==
  \/ \E id \in ToastIds : TimerFire(id)
  \/ \E id \in ToastIds : removeToast(id)

ChatNext ==
  \/ \E v \in Inputs : TypeInput(v)
  \/ handleSubmit
  \/ \E i \in 1..2, reply \in AskReplies, id \in Draw(timers) : AskSettle(i, reply, id)

\* the chat session over a service that holds at most document A
InitChat == Init /\ serverFiles \in Listings({"A"})

NextChat ==
  \/ ChatNext
  \/ RegistryNext
  \/ \E id \in ToastIds : TimerFire(id)

SpecChat == InitChat /\ [][NextChat]_vars

UploadNext ==
  \/ \E fs \in FileLists, id \in Draw(timers) : handleFileSelect(fs, id)
  \/ \E index \in 1..MaxBatch : removeFile(index)
  \/ \E id \in Draw(timers) : uploadFiles(id)
  \/ \E j \in 1..MaxBatch : \E f \in Files : \E reply \in UploadReplies(f) : UploadServe(j, reply)
  \/ \E id1 \in Draw(timers) : \E id2 \in Draw(AddTimer(timers, id1)) : UploadSettle(id1, id2)

\* the upload component over a service that starts empty; the list requests
\* it triggers stay in flight
InitUpload == Init /\ serverFiles = <<>>

NextUpload ==
  \/ UploadNext
  \/ Mount
  \/ \E id \in ToastIds : TimerFire(id)

SpecUpload == InitUpload /\ [][NextUpload]_vars

\* the deletes of the files named in S
DeleteNext(S) ==
  \/ \E name \in S, confirmed \in BOOLEAN : handleDelete(name, confirmed)
  \/ \E k \in 1..Cardinality(S), name \in S :
       \E reply \in DeleteReplies(<<name>>, name) : DeleteServe(k, reply)
  \/ \E k \in 1..Cardinality(S), id \in Draw(timers) : DeleteSettle(k, id)

\* the registry over a service that holds A and B: refreshes from the mount
\* effect, from the refresh button and from deletes of A
InitRegistry == Init /\ serverFiles = <<"A", "B">>

NextRegistry ==
  \/ RegistryNext
  \/ DeleteNext({"A"})
  \/ \E id \in ToastIds : TimerFire(id)

SpecRegistry == InitRegistry /\ [][NextRegistry]_vars

\* no toast is on display and no timer is pending
ToastsGone == timers = <<>>

BPdf == [name |-> "B", type |-> PdfType]

\* the races on the registry over a service that holds A: refreshes from
\* the mount effect, the refresh button, deletes of A and uploads of B, in
\* every order of issue, service and completion; a toast expires before the
\* next event
InitRaces == Init /\ serverFiles = <<"A">>

NextRaces ==
  \/ \E id \in ToastIds : TimerFire(id)
  \/ ToastsGone /\ Mount
  \/ ToastsGone /\ Refresh
  \/ ToastsGone /\ \E i \in 1..MaxLoads, reply \in UNION {ListReplies(h) : h \in Listings(FileNames)} :
                      ListServe(i, reply)
  \/ ToastsGone /\ \E i \in 1..MaxLoads, id \in Draw(timers) : ListSettle(i, id)
  \/ ToastsGone /\ DeleteNext({"A"})
  \/ ToastsGone /\ \E id \in Draw(timers) : handleFileSelect(<<BPdf>>, id)
  \/ ToastsGone /\ \E id \in Draw(timers) : uploadFiles(id)
  \/ ToastsGone /\ \E reply \in UploadReplies(BPdf) : UploadServe(1, reply)
  \/ ToastsGone /\ \E id1 \in Draw(timers) : \E id2 \in Draw(AddTimer(timers, id1)) :
                      UploadSettle(id1, id2)

SpecRaces == InitRaces /\ [][NextRaces]_vars

Notes == [name |-> "notes", type |-> "text/plain"]

\* a refresh, a delete or an upload is in progress
Busy == listReqs # <<>> \/ delReqs # <<>> \/ upload.pc # "idle"

\* the whole page over a service that holds A: the user refreshes, deletes
\* A, selects and uploads B and asks questions, starting a refresh, a delete,
\* a selection or an upload when none is in progress; a toast expires or is
\* dismissed before the next event
InitPage == Init /\ serverFiles = <<"A">>

NextPage ==
  \/ \E id \in ToastIds : TimerFire(id)
  \/ \E id \in ToastIds : removeToast(id)
  \/ Mount
  \/ ToastsGone /\ ~Busy /\ Refresh
  \/ ToastsGone /\ \E i \in 1..MaxLoads, reply \in UNION {ListReplies(h) : h \in Listings(FileNames)} :
                      ListServe(i, reply)
  \/ ToastsGone /\ \E i \in 1..MaxLoads, id \in Draw(timers) : ListSettle(i, id)
  \/ ToastsGone /\ ~Busy /\ \E confirmed \in BOOLEAN : handleDelete("A", confirmed)
  \/ ToastsGone /\ \E reply \in DeleteReplies(<<"A">>, "A") : DeleteServe(1, reply)
  \/ ToastsGone /\ \E id \in Draw(timers) : DeleteSettle(1, id)
  \/ ToastsGone /\ ~Busy /\ \E fs \in {<<BPdf>>, <<Notes, BPdf>>}, id \in Draw(timers) :
                                handleFileSelect(fs, id)
  \/ ToastsGone /\ ~Busy /\ removeFile(1)
  \/ ToastsGone /\ ~Busy /\ \E id \in Draw(timers) : uploadFiles(id)
  \/ ToastsGone /\ \E reply \in UploadReplies(BPdf) : UploadServe(1, reply)
  \/ ToastsGone /\ \E id1 \in Draw(timers) : \E id2 \in Draw(AddTimer(timers, id1)) :
                      UploadSettle(id1, id2)
  \/ ToastsGone /\ TypeInput(<<"a">>)
  \/ ToastsGone /\ handleSubmit
  \/ ToastsGone /\ \E reply \in AskReplies, id \in Draw(timers) : AskSettle(1, reply, id)

SpecPage == InitPage /\ [][NextPage]_vars

\* the toast queue under the clock: toasts from selections of a text file
\* and from uploads of an empty batch, dismissals, refreshes, and the timers
\* firing when they are due
InitToast == Init /\ serverFiles = <<"A">>

NextToast ==
  \/ Tick
  \/ \E id \in ToastIds : Expire(id)
  \/ \E id \in ToastIds : removeToast(id)
  \/ Mount
  \/ Refresh
  \/ \E reply \in ListReplies(<<"A">>) : ListServe(1, reply)
  \/ \E id \in Draw(timers) : ListSettle(1, id)
  \/ \E id \in Draw(timers) : handleFileSelect(<<Notes>>, id)
  \/ \E id \in Draw(timers) : uploadFiles(id)

SpecToast == InitToast /\ [][NextToast]_vars

\* the file dialog and the drop zone under the clock: selections of every
\* FileList, removals from the pending batch, dismissals, and the timers
\* firing when they are due; nothing is uploaded
InitSelect == Init /\ serverFiles = <<>>

NextSelect ==
  \/ Tick
  \/ \E id \in ToastIds : Expire(id)
  \/ \E id \in ToastIds : removeToast(id)
  \/ Mount
  \/ \E fs \in FileLists, id \in Draw(timers) : handleFileSelect(fs, id)
  \/ \E index \in 1..MaxBatch : removeFile(index)

SpecSelect == InitSelect /\ [][NextSelect]_vars

\* part_000:15 Math.random().toString(36).substr(2, 9): the id of a new
\* toast is whatever the random number generator yields
RandomIds == ToastIds

\* the toast queue with random ids: toasts from selections of a text file
\* and from uploads of an empty batch, dismissals, and the timers firing
InitNotify == Init /\ serverFiles = <<>>

NextNotify ==
  \/ Mount
  \/ \E id \in RandomIds : handleFileSelect(<<Notes>>, id)
  \/ \E id \in RandomIds : uploadFiles(id)
  \/ \E id \in ToastIds : removeToast(id)
  \/ \E id \in ToastIds : TimerFire(id)

SpecNotify == InitNotify /\ [][NextNotify]_vars

APdf == [name |-> "A", type |-> PdfType]

\* batches [A, B] uploaded to a service that starts empty and keeps
\* what it stores, with the refreshes of the mount effect and of the end of
\* each upload served and completed in every order; a toast expires before
\* the next event
InitBatch == Init /\ serverFiles = <<>>

NextBatch ==
  \/ \E id \in ToastIds : TimerFire(id)
  \/ ToastsGone /\ Mount
  \/ ToastsGone /\ \E i \in 1..MaxLoads, reply \in UNION {ListReplies(h) : h \in Listings(FileNames)} :
                      ListServe(i, reply)
  \/ ToastsGone /\ \E i \in 1..MaxLoads, id \in Draw(timers) : ListSettle(i, id)
  \/ ToastsGone /\ \E id \in Draw(timers) : handleFileSelect(<<APdf, BPdf>>, id)
  \/ ToastsGone /\ \E id \in Draw(timers) : uploadFiles(id)
  \/ ToastsGone /\ \E j \in 1..MaxBatch : \E f \in Files : \E reply \in UploadReplies(f) :
                      UploadServe(j, reply)
  \/ ToastsGone /\ \E id1 \in Draw(timers) : \E id2 \in Draw(AddTimer(timers, id1)) :
                      UploadSettle(id1, id2)

SpecBatch == InitBatch /\ [][NextBatch]_vars

\* the error fields a response body can carry
ErrorFields == {Undefined, <<"No documents">>, <<"unsupported encoding">>, <<"File not found">>,
                <<"Internal error">>}

\* the response bodies of the four endpoints, with and without an error field
Bodies ==
  {AskBody(e, a, src) : e \in ErrorFields, a \in {Undefined, <<"It covers X.">>},
                        src \in {None, Some(<<Citation("doc.pdf", 2, "X is...")>>)}}
  \cup {UploadBody(e, m, "30") : e \in ErrorFields, m \in {Undefined, <<"Uploaded ", "A">>}}
  \cup {ListBody(e, fs) : e \in ErrorFields, fs \in {<<>>, <<FileInfo("A")>>}}
  \cup {DeleteBody(e, m) : e \in ErrorFields, m \in {Undefined, <<"File deleted">>}}

\* what the network can hand back to ApiClient.request
ApiReplies ==
  {Reply("resolved", ok, body) : ok \in BOOLEAN, body \in Bodies}
  \cup {Reply("rejected", FALSE, body) : body \in {b \in Bodies : b.error = Undefined}}

\* api.ts:6-21 one call of ApiClient.request, with what the network handed
\* back and what the call made of it
ApiCall(reply) ==
  /\ event' = Ev("request", [reply |-> reply, result |-> Request(reply)])
  /\ UNCHANGED <<mounted, chatVars, registryVars, serverFiles, toastVars, uploadVars, deleteVars,
                 serverLog, now>>

\* the HTTP client alone, over every reply
InitApi == Init /\ serverFiles = <<>>

NextApi == \E reply \in ApiReplies : ApiCall(reply)

SpecApi == InitApi /\ [][NextApi]_vars

-----------------------------------------------------------------------------
(* Properties of the chat session *)

Last(s) == s[Len(s)]

Awaiting == isLoading
Idle == ~isLoading

\* the three cases in which ask() must do nothing
AskNoOpCase == ~hasFiles \/ Trim(inputValue) = <<>> \/ Awaiting

\* the remote query succeeded / failed, as the network saw it
QuerySucceeded(reply) == reply.fetch = "resolved" /\ reply.ok /\ reply.data.error = Undefined
QueryFailed(reply) == reply.fetch = "rejected" \/ ~reply.ok

\* C1: ask() is a no-op when hasAny() is false, when the question is empty
\* after trimming, or when the session is Awaiting: the transcript, the
\* session state and the notification queue stay as they are and no remote
\* request is issued.
C1_AskNoOp ==
  [][(event'.op = "handleSubmit" /\ AskNoOpCase)
       => UNCHANGED <<messages, isLoading, toastVars, askReqs, listReqs, upload>>]_vars

\* a submit arrived while a question was in flight and documents were loaded
C1_Witness ==
  /\ event.op = "handleSubmit"
  /\ event.arg[1] = "awaiting"
  /\ event.arg[2] = "files"
  /\ Len(askReqs) = 1

\* C2: at most one ask request is in flight, the session is Awaiting exactly
\* when one is in flight, and an ask() issued while Awaiting neither queues a
\* request nor cancels the first.
C2_OneInFlight ==
  /\ [](Len(askReqs) <= 1 /\ (Awaiting <=> Len(askReqs) = 1))
  /\ [][(event'.op = "handleSubmit" /\ Awaiting) => askReqs' = askReqs]_vars

\* a second submit while the first question is still in flight
C2_Witness ==
  /\ event.op = "handleSubmit"
  /\ event.arg[1] = "awaiting"
  /\ Awaiting
  /\ Len(askReqs) = 1
  /\ Last(messages).sender = "user"

\* C3: an accepted ask() appends one user message carrying the trimmed
\* question and moves the session to Awaiting while the request is in flight;
\* when the query succeeds exactly one assistant message carrying the returned
\* answer and the returned citations, in order, is appended directly after it
\* and the session returns to Idle.
C3_AskSuccess ==
  [][/\ (event'.op = "handleSubmit" /\ ~AskNoOpCase)
          => /\ Len(messages') = Len(messages) + 1
             /\ SubSeq(messages', 1, Len(messages)) = messages
             /\ Last(messages').sender = "user"
             /\ Last(messages').content = Trim(inputValue)
             /\ Awaiting'
             /\ askReqs' = Append(askReqs, [question |-> Trim(inputValue)])
     /\ (event'.op = "askSettle" /\ QuerySucceeded(event'.arg))
          => /\ Len(messages') = Len(messages) + 1
             /\ SubSeq(messages', 1, Len(messages)) = messages
             /\ Last(messages).sender = "user"
             /\ Last(messages).content = askReqs[1].question
             /\ Last(messages').sender = "ai"
             /\ Last(messages').content = event'.arg.data.answer
             /\ Last(messages').sources = event'.arg.data.sources
             /\ Idle'
             /\ askReqs' = <<>>]_vars

\* a question was answered with two citations
C3_Witness ==
  /\ event.op = "askSettle"
  /\ QuerySucceeded(event.arg)
  /\ Len(messages) >= 2
  /\ Last(messages).sender = "ai"
  /\ Last(messages).sources # None
  /\ Len(Last(messages).sources[1]) = 2
  /\ Idle

\* C4: when the query of an accepted ask() fails, exactly one assistant
\* message communicating the failure is appended, exactly one error
\* notification is emitted, the session returns to Idle and the user message
\* stays in the transcript.
C4_AskFailure ==
  [][(event'.op = "askSettle" /\ QueryFailed(event'.arg))
       => /\ Len(messages') = Len(messages) + 1
          /\ SubSeq(messages', 1, Len(messages)) = messages
          /\ Last(messages).sender = "user"
          /\ Last(messages').sender = "ai"
          /\ Head(Last(messages').content) = "Sorry, I encountered an error: "
          /\ Len(Last(messages').content) > 1
          /\ Len(toasts') = Len(toasts) + 1
          /\ SubSeq(toasts', 1, Len(toasts)) = toasts
          /\ Last(toasts').type = "error"
          /\ Idle']_vars

\* a question failed with the server's reason
C4_Witness ==
  /\ event.op = "askSettle"
  /\ QueryFailed(event.arg)
  /\ Len(messages) >= 2
  /\ Last(messages).content = <<"Sorry, I encountered an error: ", "No documents">>
  /\ messages[Len(messages) - 1].sender = "user"
  /\ Idle

\* C5: the transcript is append-only: every step leaves the previous
\* transcript as a prefix of the next one, and the messages stand in the
\* order of their creation.
C5_AppendOnly ==
  /\ [][IsPrefix(messages, messages')]_vars
  /\ [](\A i, j \in DOMAIN messages : i < j => messages[i].timestamp < messages[j].timestamp)

\* two complete exchanges
C5_Witness ==
  /\ Len(messages) >= 4
  /\ messages[1].sender = "user"
  /\ messages[3].sender = "user"

\* C24: in every reachable state the transcript alternates user and
\* assistant messages starting with a user message: while Idle it has even
\* length and ends with an assistant message (or is empty), while Awaiting
\* it has odd length and ends with the user message of the question in
\* flight.
C24_Alternates ==
  /\ \A k \in DOMAIN messages :
       messages[k].sender = IF k % 2 = 1 THEN "user" ELSE "ai"
  /\ Idle =>
       /\ Len(messages) % 2 = 0
       /\ messages # <<>> => Last(messages).sender = "ai"
       /\ askReqs = <<>>
  /\ Awaiting =>
       /\ Len(messages) % 2 = 1
       /\ Last(messages).sender = "user"
       /\ Len(askReqs) = 1
       /\ Last(messages).content = askReqs[1].question

\* the second question is in flight after a complete exchange
C24_Witness ==
  /\ Awaiting
  /\ Len(messages) = 3
  /\ messages[2].sender = "ai"
  /\ Len(askReqs) = 1

\* C25: an accepted question is never cancelled: if the record set becomes
\* empty (hasAny() turns false through a remove or a refresh) while the
\* session is Awaiting, the assistant message for that question is still
\* appended when the request resolves or rejects, and the session still
\* returns to Idle.
C25_NeverCancelled ==
  [][/\ (Awaiting /\ files' # files) => UNCHANGED <<messages, isLoading, askReqs>>
     /\ (Awaiting /\ ~hasFiles /\ askReqs' # askReqs) => event'.op = "askSettle"
     /\ (event'.op = "askSettle" /\ ~hasFiles)
          => /\ Len(messages') = Len(messages) + 1
             /\ SubSeq(messages', 1, Len(messages)) = messages
             /\ Last(messages).sender = "user"
             /\ Last(messages).content = askReqs[1].question
             /\ Last(messages').sender = "ai"
             /\ QuerySucceeded(event'.arg) => Last(messages').content = event'.arg.data.answer
             /\ QueryFailed(event'.arg) => Head(Last(messages').content) = "Sorry, I encountered an error: "
             /\ Idle'
             /\ askReqs' = <<>>]_vars

\* a question was asked while A was listed, the remove of A and its refresh
\* emptied the record set while the question was in flight, and the answer
\* has been appended
C25_Witness ==
  /\ event.op = "askSettle"
  /\ QuerySucceeded(event.arg)
  /\ ~hasFiles
  /\ "A" \in serverLog.deleted
  /\ Last(messages).sender = "ai"
  /\ Last(messages).content = event.arg.data.answer
  /\ Idle

-----------------------------------------------------------------------------
(* Properties of the batch upload *)

IsSettledOk(e) == e.what = "settled" /\ e.type = "ok"
IsSettledFailed(e) == e.what = "settled" /\ e.type = "failed"
IsRequest(e) == e.what = "request"
IsToast(e) == e.what = "toast"
IsSummaryToast(e) ==
  e.what = "toast" /\ e.type = "success" /\ Head(e.message) = "Successfully uploaded "
IsFileSuccessToast(e) ==
  e.what = "toast" /\ e.type = "success" /\ Head(e.message) # "Successfully uploaded "
IsFileErrorToast(e) ==
  e.what = "toast" /\ e.type = "error" /\ Head(e.message) = "Failed to upload "

HowMany(log, Is(_)) == Len(SelectSeq(log, Is))

\* the positions of the log that hold an entry of one kind
Where(log, what) == {p \in DOMAIN log : log[p].what = what}

\* the uploadFiles call over a non-empty batch has just finished
UploadFinished == event.op = "uploadSettle" /\ event.arg = "finished"

\* C6: an upload over a non-empty batch in which k requests succeed and the
\* others fail emits exactly k per-file success notifications, exactly
\* size-k per-file error notifications and one summary success notification
\* when k > 0, none when k = 0; the summary reports k.
C6_UploadCounts ==
  UploadFinished =>
    LET k == HowMany(uploadLog, IsSettledOk)
        size == Len(upload.batch)
    IN /\ size > 0
       /\ HowMany(uploadLog, IsSettledFailed) = size - k
       /\ HowMany(uploadLog, IsFileSuccessToast) = k
       /\ HowMany(uploadLog, IsFileErrorToast) = size - k
       /\ HowMany(uploadLog, IsSummaryToast) = (IF k > 0 THEN 1 ELSE 0)
       /\ HowMany(uploadLog, IsToast) = size + (IF k > 0 THEN 1 ELSE 0)
       /\ \A p \in DOMAIN uploadLog :
            IsSummaryToast(uploadLog[p]) => uploadLog[p].message[2] = ToString(k)

\* a batch of two with one success and one failure has finished
C6_Witness ==
  /\ UploadFinished
  /\ Len(upload.batch) = 2
  /\ HowMany(uploadLog, IsSettledOk) = 1
  /\ HowMany(uploadLog, IsSettledFailed) = 1

\* C7: one failed upload does not abort the batch: a finished upload of n
\* files has issued exactly n requests, one per file of the batch.
C7_AllAttempted ==
  UploadFinished =>
    LET requests == SelectSeq(uploadLog, IsRequest)
    IN /\ Len(requests) = Len(upload.batch)
       /\ \A k \in DOMAIN requests : requests[k].name = upload.batch[k].name

\* a batch of two has finished although its first file failed
C7_Witness ==
  /\ UploadFinished
  /\ Len(upload.batch) = 2
  /\ \E p \in DOMAIN uploadLog :
       /\ IsSettledFailed(uploadLog[p])
       /\ \A q \in 1..(p - 1) : uploadLog[q].what # "settled"

\* C8: the files of one upload are processed one after the other in batch
\* order: the request for file i+1 is issued only after the request for
\* file i has settled, so at most one request of the batch is in flight.
C8_Sequential ==
  /\ Len(upload.reqs) <= 1
  /\ \A p \in Where(uploadLog, "request") :
       LET earlier == Cardinality({q \in Where(uploadLog, "request") : q < p})
           settledBefore == Cardinality({q \in Where(uploadLog, "settled") : q < p})
       IN /\ settledBefore = earlier
          /\ uploadLog[p].name = upload.batch[earlier + 1].name

\* the second request of a batch is in flight, the first has settled
C8_Witness ==
  /\ upload.pc = "awaiting"
  /\ upload.i = 2
  /\ Len(upload.reqs) = 1
  /\ upload.reqs[1].reply = None
  /\ upload.reqs[1].file = upload.batch[2]

\* C9: after the last file of a non-empty batch has been attempted the
\* pending batch is cleared and the registry refresh is invoked exactly once,
\* also when every file failed, and only then the summary is emitted; no
\* step of the upload before that invokes a refresh.
C9_RefreshAfterBatch ==
  /\ [](UploadFinished =>
          /\ selectedFiles = <<>>
          /\ Cardinality(Where(uploadLog, "clear")) = 1
          /\ Cardinality(Where(uploadLog, "refresh")) = 1
          /\ \A c \in Where(uploadLog, "clear"), f \in Where(uploadLog, "refresh") :
               /\ c < f
               /\ \A q \in Where(uploadLog, "settled") \cup Where(uploadLog, "request") : q < c
               /\ \A q \in DOMAIN uploadLog : IsSummaryToast(uploadLog[q]) => f < q)
  /\ [][event'.op \in {"uploadFiles", "uploadSettle"}
          => IF event'.op = "uploadSettle" /\ event'.arg = "finished"
             THEN listReqs' = Append(listReqs, ListRequest(None)) /\ loading'
             ELSE UNCHANGED registryVars]_vars

\* a batch whose every file failed has finished and the refresh is in flight
C9_Witness ==
  /\ UploadFinished
  /\ HowMany(uploadLog, IsSettledOk) = 0
  /\ HowMany(uploadLog, IsSettledFailed) = 2
  /\ Cardinality(Where(uploadLog, "refresh")) = 1
  /\ Len(listReqs) >= 1
  /\ loading

\* C10: an upload with an empty pending batch emits exactly one error
\* notification and does nothing else: no upload request, no registry
\* refresh, no summary, and the pending batch stays empty.
C10_EmptyBatch ==
  [][(event'.op = "uploadFiles" /\ selectedFiles = <<>>)
       => /\ Len(toasts') = Len(toasts) + 1
          /\ SubSeq(toasts', 1, Len(toasts)) = toasts
          /\ Last(toasts').type = "error"
          /\ UNCHANGED <<upload, selectedFiles, globalLoading, registryVars, serverFiles>>]_vars

\* the upload button handler ran on an empty batch
C10_Witness ==
  /\ event.op = "uploadFiles"
  /\ event.arg = "rejected"
  /\ selectedFiles = <<>>
  /\ toasts # <<>>
  /\ Last(toasts).message = <<"Please select at least one file">>

-----------------------------------------------------------------------------
(* Properties of the selection *)

\* the candidates whose media type is the accepted one, in input order
Accepted(fs) == SelectSeq(fs, LAMBDA f : f.type = "application/pdf")

\* the step appends exactly one toast of the given type to the queue
EmitsOne(type) ==
  /\ Len(toasts') = Len(toasts) + 1
  /\ SubSeq(toasts', 1, Len(toasts)) = toasts
  /\ Last(toasts').type = type

\* the step issues no request to the remote service and the service does nothing
NoRemoteRequest == UNCHANGED <<askReqs, listReqs, delReqs, upload, serverFiles, serverLog>>

\* C11: select() on N candidate files of which M have the accepted media
\* type sets the pending batch to exactly those M files, in input order,
\* emits a warning notification exactly when M < N, and issues no remote
\* request.
C11_Select ==
  [][\A fs \in FileLists :
       (\E id \in Draw(timers) : handleFileSelect(fs, id))
         => LET N == Len(fs)
                M == Len(Accepted(fs))
            IN /\ selectedFiles' = Accepted(fs)
               /\ Len(selectedFiles') = M
               /\ IF M < N THEN EmitsOne("warning") ELSE toasts' = toasts
               /\ NoRemoteRequest]_vars

\* a selection that kept one file of several and warned about the rest
C11_Witness ==
  /\ Len(selectedFiles) = 1
  /\ Len(toasts) = 1
  /\ toasts[1].type = "warning"
  /\ toasts[1].message = <<"Only PDF files are allowed">>
  /\ upload.pc = "idle"
  /\ uploadLog = <<>>

-----------------------------------------------------------------------------
(* Properties of the file registry *)

\* the list request succeeded / failed, as the network saw it
ListSucceeded(reply) == reply.fetch = "resolved" /\ reply.ok /\ reply.data.error = Undefined
ListFailed(reply) == reply.fetch = "rejected" \/ ~reply.ok

\* the step is the completion of the list request i
Completes(i) == \E id \in Draw(timers) : ListSettle(i, id)

\* the deleteFile call that awaits the list request i, if there is one,
\* returns and handleDelete reports the deletion
CallerGoesOn(i) ==
  listReqs[i].then # None =>
    /\ EmitsOne("success")
    /\ Last(toasts').message = <<"File deleted successfully">>
    /\ deletingFiles' = deletingFiles \ {listReqs[i].then[1]}

\* the deleteFile call that awaits the list request i, if there is one,
\* is handed the failure: it does not report a deletion
CallerFails(i) == listReqs[i].then # None => ~EmitsOne("success")

DeleteSucceeded(reply) == reply.fetch = "resolved" /\ reply.ok /\ reply.data.error = Undefined
DeleteFailed(reply) == reply.fetch = "rejected" \/ ~reply.ok

\* the step is the completion of the delete request k
DeleteCompletes(k) == \E id \in Draw(timers) : DeleteSettle(k, id)

\* C13: remove(name) whose remote delete fails raises an error to its
\* caller, issues no refresh and leaves the record set unchanged; remove(name)
\* whose remote delete succeeds triggers a refresh(), the record set staying
\* as it is until that refresh completes.
C13_Remove ==
  [][\A k \in 1..Cardinality(FileNames) :
       DeleteCompletes(k) =>
         LET reply == delReqs[k].reply[1]
             name == delReqs[k].name
         IN
         /\ files' = files
         /\ DeleteFailed(reply) =>
              /\ EmitsOne("error")
              /\ Last(toasts').message \in {<<"File not found">>, <<"Failed to fetch">>}
              /\ name \notin deletingFiles'
              /\ UNCHANGED registryVars
         /\ DeleteSucceeded(reply) =>
              /\ listReqs' = Append(listReqs, ListRequest(Some(name)))
              /\ loading'
              /\ toasts' = toasts]_vars

\* a remove of A has failed with the service's reason: A is still listed
\* and no refresh is in flight
C13_Witness ==
  /\ toasts # <<>>
  /\ Last(toasts).type = "error"
  /\ Last(toasts).message = <<"File not found">>
  /\ "A" \in Names(files)
  /\ listReqs = <<>>
  /\ delReqs = <<>>
  /\ deletingFiles = {}

\* the remote delete of n has succeeded, the remove that asked for it has
\* returned, and n has not been uploaded
Removed(n) ==
  /\ n \in serverLog.deleted
  /\ n \notin serverLog.stored
  /\ n \notin deletingFiles

\* C14 as stated: after remove(name) has succeeded and a refresh() has then
\* completed successfully, the record set does not contain name, under every
\* interleaving with other refreshes that were issued before or after the
\* delete, provided name is not uploaded again.
C14_Original ==
  [][\A i \in 1..MaxLoads :
       (Completes(i) /\ ListSucceeded(listReqs[i].reply[1]))
         => \A n \in FileNames : (Removed(n) /\ Removed(n)') => n \notin Names(files')]_vars

\* C14, amended: when a refresh() that was issued after the remote delete of
\* name had succeeded (the one remove() triggers or any later one, whatever
\* its origin) completes successfully, the record set it installs does not
\* contain name, provided name is not uploaded again; a refresh issued before
\* the delete can complete later and install a response that still holds name.
C14_RemoveThenRefresh ==
  [][\A i \in 1..MaxLoads :
       (Completes(i) /\ ListSucceeded(listReqs[i].reply[1]))
         => \A n \in listReqs[i].gone : n \notin serverLog.stored => n \notin Names(files')]_vars

\* the refresh that the remove of A triggered has completed while an older
\* refresh, answered before the delete, is still in flight: the record set
\* has lost A and the older response still holds it
C14_Witness ==
  /\ Removed("A")
  /\ "A" \notin Names(files)
  /\ error = Null
  /\ Len(listReqs) = 1
  /\ listReqs[1].gone = {}
  /\ listReqs[1].reply # None
  /\ ListSucceeded(listReqs[1].reply[1])
  /\ "A" \in Names(listReqs[1].reply[1].data.files)

\* the step calls loadFiles: the mount effect, the refresh button, a
\* deleteFile whose remote delete succeeded, or an uploadFiles call that ends
StartsRefresh ==
  \/ Mount
  \/ Refresh
  \/ \E k \in 1..Cardinality(FileNames) :
       DeleteCompletes(k) /\ DeleteSucceeded(delReqs[k].reply[1])
  \/ event'.op = "uploadSettle" /\ event'.arg = "finished"

\* C15: concurrent refresh() calls are not deduplicated: each issues its own
\* list request, also while others are in flight; and the last completing
\* response wins: a refresh that completes successfully installs its own
\* response whatever the order of issue and whatever else is in flight, and
\* nothing else changes the record set, so that after all have completed the
\* record set is the response of the successful refresh that completed last.
C15_LastWriteWins ==
  [][/\ StartsRefresh =>
          /\ Len(listReqs') = Len(listReqs) + 1
          /\ SubSeq(listReqs', 1, Len(listReqs)) = listReqs
          /\ Last(listReqs').reply = None
     /\ \A i \in 1..MaxLoads :
          Completes(i) =>
            /\ listReqs' = RemoveAt(listReqs, i)
            /\ files' = IF ListSucceeded(listReqs[i].reply[1])
                        THEN listReqs[i].reply[1].data.files ELSE files
     /\ (\A i \in 1..MaxLoads : ~Completes(i)) => files' = files]_vars

\* two refreshes are in flight, the later one answered first and with another
\* listing than the one the registry holds
C15_Witness ==
  /\ Len(listReqs) = 2
  /\ listReqs[1].reply = None
  /\ listReqs[2].reply # None
  /\ ListSucceeded(listReqs[2].reply[1])
  /\ listReqs[2].reply[1].data.files # files
  /\ files # <<>>

\* C16: the registry's loading flag is true in every state in which at least
\* one refresh() is in flight, also when several refreshes overlap, and false
\* when none is in flight.
C16_Loading == loading <=> listReqs # <<>>

\* C17: the record set changes only at the completion of a successful
\* list-documents request and then equals that response verbatim; select,
\* upload requests and their outcomes, the remote delete itself, ask, notify
\* and dismiss never change it; and hasAny() is true exactly when it is
\* non-empty.
C17_Mirror ==
  /\ [][files' # files =>
          \E i \in 1..MaxLoads :
            /\ Completes(i)
            /\ ListSucceeded(listReqs[i].reply[1])
            /\ files' = listReqs[i].reply[1].data.files]_vars
  /\ [](hasFiles <=> files # <<>>)

\* the service has stored B and deleted A on request, the upload and the
\* remove have ended, a question has been answered, and the record set still
\* is the listing loaded before all that
C17_Witness ==
  /\ "B" \in serverLog.stored
  /\ "A" \in serverLog.deleted
  /\ Names(files) = {"A"}
  /\ hasFiles
  /\ ~Busy
  /\ upload.successCount = 1
  /\ Len(messages) >= 2
  /\ error # Null

\* the positions of the toasts the step has appended that are of kind error
NewErrors == {p \in DOMAIN toasts' : p > Len(toasts) /\ toasts'[p].type = "error"}

\* C18: every failure results in an error-kind notification: a failed
\* refresh (user-initiated, mount-time, upload-triggered or remove-triggered),
\* a failed remove, a failed per-file upload and a failed ask each emit one; a
\* select() that rejects files of the wrong type emits a warning-kind
\* notification and no error-kind one.
C18_FailuresNotified ==
  [][/\ \A i \in 1..MaxLoads :
          (Completes(i) /\ ListFailed(listReqs[i].reply[1])) => Cardinality(NewErrors) = 1
     /\ \A k \in 1..Cardinality(FileNames) :
          (DeleteCompletes(k) /\ DeleteFailed(delReqs[k].reply[1])) => Cardinality(NewErrors) = 1
     /\ (event'.op = "uploadSettle" /\ Outcome(Head(upload.reqs).reply[1]) = "failed")
          => Cardinality(NewErrors) = 1
     /\ (event'.op = "askSettle" /\ QueryFailed(event'.arg)) => Cardinality(NewErrors) = 1
     /\ \A fs \in FileLists :
          ((\E id \in ToastIds : handleFileSelect(fs, id)) /\ Len(Accepted(fs)) < Len(fs))
            => (EmitsOne("warning") /\ NewErrors = {})]_vars

-----------------------------------------------------------------------------
(* Properties of the HTTP client *)

\* the response body carries an error field
HasErrorField(data) == data.error # Undefined

\* C19: a remote call is treated as a failure whenever the response status
\* is non-2xx or the response body contains an error field (also with a 2xx
\* status); the propagated failure reason is the error field when present and
\* a generic fallback message otherwise.
C19_FailureContract ==
  event.op = "request" =>
    LET reply == event.arg.reply
        result == event.arg.result
    IN (reply.fetch = "resolved" /\ (~reply.ok \/ HasErrorField(reply.data)))
         => /\ result.threw
            /\ result.message = IF HasErrorField(reply.data) THEN reply.data.error
                                ELSE <<"An error occurred">>

-----------------------------------------------------------------------------
(* Properties of the toast queue *)

\* the pending timers that were set for the toast id
TimersOf(tm, id) == {k \in DOMAIN tm : tm[k].id = id}

\* C20: every notification created by notify() at time t is absent from the
\* queue from time t plus 5 units on, whether or not it was dismissed
\* earlier: a notification in the queue has its own timer pending, set at its
\* creation for 5 units later, no more than 5 units have gone by since, and
\* time goes on only when that timer is not yet due; no operation extends its
\* lifetime: the deadline of a pending timer never changes.
C20_Lifetime ==
  /\ [](\A p \in DOMAIN toasts :
          \E k \in TimersOf(timers, toasts[p].id) :
            /\ timers[k].due - ToastLifetime <= now
            /\ now <= timers[k].due)
  /\ [][now' > now => \A p \in DOMAIN toasts :
                        \A k \in TimersOf(timers, toasts[p].id) : now' <= timers[k].due]_vars
  /\ [][\A j \in DOMAIN timers' :
          \/ \E k \in DOMAIN timers : timers[k] = timers'[j]
          \/ /\ TimersOf(timers, timers'[j].id) = {}
             /\ timers'[j].due = now + ToastLifetime
             /\ now' = now]_vars

\* two toasts with the same text are on display, created at different
\* times; the older one is at the end of its 5 units and the younger is not
C20_Witness ==
  /\ Len(toasts) = 2
  /\ toasts[1].message = toasts[2].message
  /\ Len(timers) = 2
  /\ timers[1].id = toasts[1].id
  /\ timers[2].id = toasts[2].id
  /\ timers[1].due = now
  /\ timers[2].due > now

\* the ids of the notifications in the queue
IdsOf(q) == {q[p].id : p \in DOMAIN q}

\* the positions of the queue that do not hold the id
Others(q, id) == {p \in DOMAIN q : q[p].id # id}

\* the queue after the step holds the notifications of other ids, each as
\* it was and in the same relative order, and nothing else
KeepsOthers(id) ==
  /\ Len(toasts') = Cardinality(Others(toasts, id))
  /\ \A p \in Others(toasts, id) :
       toasts'[Cardinality({o \in Others(toasts, id) : o <= p})] = toasts[p]

\* the step is dismiss(id) / the expiry of a timer set for id
Dismisses(id) == removeToast(id)
Expires(id) == TimerFire(id)

\* C21: dismiss(id) removes exactly the notification with that id and leaves
\* every other notification and their relative order unchanged; when no
\* notification has that id (never created, already dismissed or already
\* expired) the queue is unchanged, and the later timer expiry for a
\* dismissed id is likewise a no-op.
C21_Dismiss ==
  [][\A id \in ToastIds :
       /\ Dismisses(id) =>
            /\ KeepsOthers(id)
            /\ id \notin IdsOf(toasts')
            /\ id \notin IdsOf(toasts) => toasts' = toasts
            /\ timers' = timers
       /\ (Expires(id) /\ id \notin IdsOf(toasts)) => toasts' = toasts]_vars

\* the older of two notifications has been dismissed: the younger is still
\* in the queue, and the timer of the dismissed one is still pending
C21_Witness ==
  /\ Len(timers) = 2
  /\ Len(toasts) = 1
  /\ toasts[1].id = timers[2].id
  /\ timers[1].id \notin IdsOf(toasts)
  /\ timers[1].due > now

\* the step is a notify(): a handler calls showToast, with whatever id the
\* generator yields
Notifies == \E id \in ToastIds : handleFileSelect(<<Notes>>, id) \/ uploadFiles(id)

-----------------------------------------------------------------------------
(* Properties of one batch and the registry *)

\* the notifications of the log / its settled requests, in order
Toasts(log) == SelectSeq(log, IsToast)
Settled(log) == SelectSeq(log, LAMBDA e : e.what = "settled")

\* the notification names the file / carries the text
Mentions(e, text) == \E p \in DOMAIN e.message : e.message[p] = text

\* the upload request that settles in this step failed with a reason of the service
ServerRefused(reply) == reply.fetch = "resolved" /\ ~reply.ok /\ reply.data.error # Undefined

\* the batch was [A, B], A's upload succeeded and B's failed
ScenarioAB ==
  /\ upload.batch = <<APdf, BPdf>>
  /\ Len(Settled(uploadLog)) = 2
  /\ Settled(uploadLog)[1].name = "A" /\ Settled(uploadLog)[1].type = "ok"
  /\ Settled(uploadLog)[2].name = "B" /\ Settled(uploadLog)[2].type = "failed"

\* the names whose upload the service answered with success in this batch
StoredByBatch(log) == {log[p].name : p \in {q \in DOMAIN log : IsSettledOk(log[q])}}

\* C23: for a batch [A, B] where A's upload succeeds and B's fails, the
\* notifications are emitted in this order: the success for A, the error for
\* B naming B and the server's failure reason, then the summary success with
\* count 1; per-file notifications always follow batch order and precede the
\* summary, and once the triggered refresh succeeds the record set contains A
\* and not B.
C23_BatchAB ==
  /\ [](UploadFinished =>
          LET ts == Toasts(uploadLog)
              st == Settled(uploadLog)
          IN /\ \A k \in DOMAIN upload.batch :
                  /\ ~IsSummaryToast(ts[k])
                  /\ Mentions(ts[k], upload.batch[k].name)
                  /\ ts[k].type = IF st[k].type = "ok" THEN "success" ELSE "error"
             /\ \A k \in DOMAIN ts : k > Len(upload.batch) => IsSummaryToast(ts[k])
             /\ ScenarioAB =>
                  /\ Len(ts) = 3
                  /\ ts[1].type = "success" /\ Mentions(ts[1], "A")
                  /\ Mentions(ts[1], "30") /\ Mentions(ts[1], " minutes)")
                  /\ ts[2].type = "error" /\ Mentions(ts[2], "B")
                  /\ ts[3] = LogToast("success", <<"Successfully uploaded ", "1", " file(s)">>))
  /\ [][(event'.op = "uploadSettle" /\ ServerRefused(Head(upload.reqs).reply[1]))
          => /\ toasts'[Len(toasts) + 1].type = "error"
             /\ toasts'[Len(toasts) + 1].message =
                  <<"Failed to upload ", upload.batch[upload.i].name, ": ">>
                    \o Head(upload.reqs).reply[1].data.error]_vars
  /\ [][(event'.op = "uploadSettle" /\ event'.arg = "finished")
          => /\ Len(listReqs') = Len(listReqs) + 1
             /\ Last(listReqs').reply = None
             /\ StoredByBatch(uploadLog') \subseteq Last(listReqs').had]_vars
  /\ [][\A i \in 1..MaxLoads :
          (Completes(i) /\ ListSucceeded(listReqs[i].reply[1]))
            => /\ \A n \in listReqs[i].had : n \in Names(files')
               /\ \A n \in FileNames : n \notin serverLog.stored => n \notin Names(files')]_vars

\* the batch [A, B] has ended with A stored and B refused, the three
\* notifications have expired, the refresh it triggered has completed and
\* the record set holds A alone
C23_Witness ==
  /\ ScenarioAB
  /\ upload.pc = "idle"
  /\ upload.successCount = 1
  /\ upload.errorCount = 1
  /\ Toasts(uploadLog)[2].message = <<"Failed to upload ", "B", ": ", "unsupported encoding">>
  /\ serverLog.stored = {"A"}
  /\ listReqs = <<>>
  /\ Names(files) = {"A"}
  /\ error = Null

-----------------------------------------------------------------------------
(* Properties of the chat session over the registry *)

\* the transcript gains a user message in this step
UserMessageEnters ==
  /\ Len(messages') > Len(messages)
  /\ \E k \in (Len(messages) + 1)..Len(messages') : messages'[k].sender = "user"

\* the step is the successful completion of a refresh with a non-empty response
NonEmptyLoad ==
  \E i \in 1..MaxLoads :
    /\ Completes(i)
    /\ ListSucceeded(listReqs[i].reply[1])
    /\ listReqs[i].reply[1].data.files # <<>>

\* C26: no user message enters the transcript before some refresh() has
\* completed successfully with a non-empty response: initially the record
\* set is empty and the session Idle, one refresh is issued at start-up, and
\* ask() stays gated until a non-empty load has been applied: the record set
\* leaves the empty state only by such a load, and a user message enters the
\* transcript only while the record set is non-empty.
C26_GatedUntilLoaded ==
  /\ (files = <<>> /\ Idle /\ messages = <<>> /\ listReqs = <<>> /\ ~mounted)
  /\ [](~mounted => (files = <<>> /\ messages = <<>> /\ listReqs = <<>> /\ Idle))
  /\ [][(~mounted /\ mounted') => (Len(listReqs') = 1 /\ listReqs'[1].reply = None)]_vars
  /\ [][(files = <<>> /\ files' # <<>>) => NonEmptyLoad]_vars
  /\ [][UserMessageEnters => (files # <<>> /\ mounted)]_vars
  /\ [][(files = <<>> /\ event'.op = "handleSubmit") => UNCHANGED <<messages, isLoading, askReqs>>]_vars

\* the first question has just been accepted, the record set having been
\* loaded with A
C26_Witness ==
  /\ event.op = "handleSubmit"
  /\ event.arg[2] = "files"
  /\ Len(messages) = 1
  /\ messages[1].sender = "user"
  /\ Names(files) = {"A"}
  /\ Awaiting

-----------------------------------------------------------------------------
(* Properties of remove() towards its caller *)

\* the remove of the name returns to handleDelete in this step, which
\* re-enables the Delete button of the file
RemoveReturns(name) == name \in deletingFiles /\ name \notin deletingFiles'

\* C27: remove(name) completes towards its caller only after the refresh it
\* triggered has completed, and its outcome depends on the remote delete
\* alone: when the delete succeeds and the triggered refresh fails, remove()
\* still reports success (a success notification is emitted) although the
\* record set is unchanged.
C27_RemoveOutcome ==
  /\ [](\A i \in DOMAIN listReqs :
          listReqs[i].then # None =>
            /\ listReqs[i].then[1] \in deletingFiles
            /\ listReqs[i].then[1] \in listReqs[i].gone)
  /\ [](\A k \in DOMAIN delReqs : delReqs[k].name \in deletingFiles)
  /\ [][\A name \in FileNames :
          RemoveReturns(name) =>
            \/ \E i \in 1..MaxLoads :
                 /\ Completes(i)
                 /\ listReqs[i].then = Some(name)
                 /\ EmitsOne("success")
            \/ \E k \in 1..Cardinality(FileNames) :
                 /\ DeleteCompletes(k)
                 /\ delReqs[k].name = name
                 /\ DeleteFailed(delReqs[k].reply[1])
                 /\ EmitsOne("error")]_vars
  /\ [][\A i \in 1..MaxLoads :
          (Completes(i) /\ listReqs[i].then # None) =>
            /\ RemoveReturns(listReqs[i].then[1])
            /\ EmitsOne("success")
            /\ Last(toasts').message = <<"File deleted successfully">>
            /\ ListFailed(listReqs[i].reply[1]) => files' = files]_vars

\* the remove of A has reported success after its refresh was cut off by the
\* network: the service holds B alone and the record set still lists A and B
C27_Witness ==
  /\ error = <<"Failed to fetch">>
  /\ Names(files) = {"A", "B"}
  /\ serverFiles = <<"B">>
  /\ serverLog.deleted = {"A"}
  /\ listReqs = <<>>
  /\ delReqs = <<>>
  /\ deletingFiles = {}
  /\ Len(toasts) = 1
  /\ toasts[1].type = "success"
  /\ toasts[1].message = <<"File deleted successfully">>

-----------------------------------------------------------------------------
(* Properties of the pending batch during an upload *)

\* the upload requests issued so far by the current or last upload() call
Requests(log) == SelectSeq(log, IsRequest)

\* C28: upload() uploads exactly the files that formed the pending batch
\* when it was invoked: a select() or a removal of a pending file performed
\* while the batch is in progress changes neither the set nor the order of
\* files uploaded, and the pending batch is empty once upload() has
\* finished, whatever was selected meanwhile.
C28_BatchSnapshot ==
  /\ [][(event'.op = "uploadFiles" /\ event'.arg = "started")
          => /\ upload'.batch = selectedFiles
             /\ selectedFiles' = selectedFiles]_vars
  /\ [][upload.pc = "awaiting"
          => /\ upload'.batch = upload.batch
             /\ (selectedFiles' # selectedFiles /\ event'.op # "uploadSettle")
                  => (upload' = upload /\ uploadLog' = uploadLog)]_vars
  /\ [](upload.pc = "awaiting" =>
          /\ Len(Requests(uploadLog)) = upload.i
          /\ \A k \in DOMAIN Requests(uploadLog) :
               Requests(uploadLog)[k].name = upload.batch[k].name
          /\ Head(upload.reqs).file = upload.batch[upload.i])
  /\ [][(event'.op = "uploadSettle" /\ event'.arg = "finished")
          => /\ selectedFiles' = <<>>
             /\ Len(Requests(uploadLog')) = Len(upload.batch)
             /\ \A k \in DOMAIN upload.batch :
                  Requests(uploadLog')[k].name = upload.batch[k].name]_vars

\* the second file of the batch [A, B] is being uploaded while the pending
\* batch has been replaced by a selection of B alone
C28_Witness ==
  /\ upload.pc = "awaiting"
  /\ upload.batch = <<APdf, BPdf>>
  /\ upload.i = 2
  /\ Head(upload.reqs).file = BPdf
  /\ selectedFiles = <<BPdf>>
  /\ Len(Requests(uploadLog)) = 2

=============================================================================
